---- MODULE Spec2Model ----
(***************************************************************************)
(* Dual-model loan decision engine: the v1 evaluator (underwriting.py,     *)
(* underwrite), the v2 evaluator (model_v2.py, predict), the adverse-      *)
(* action mapper and the decision router (main.py, _decide).               *)
(*                                                                         *)
(* Numbers.  The program computes in IEEE doubles.  Here every quantity is *)
(* a fixed-point integer:                                                  *)
(*   money                      in mills  (1/1000 dollar),                 *)
(*   rates, ratios, z, p, years in micros (1/1000000).                     *)
(* Products and quotients are computed by MulS and DivS, which truncate to *)
(* one unit and never leave 32-bit range.  math.pow and math.exp are       *)
(* computed by repeated multiplication and by a Taylor series.             *)
(***************************************************************************)
EXTENDS Integers, Sequences, FiniteSets, TLC

VARIABLES
    pc,             \* position of the running handler / function call
    data,           \* the application record under evaluation
    v1_out,         \* _decide: Some(v1_predict(data)), None before the call
    v2_out,         \* _decide: Some(v2_predict(data)), None before the call
    use_v2,         \* _decide: Some(flag value read), None before the read
    request_count,  \* REQUEST_COUNT, one counter per model label
    latency_obs,    \* PREDICTION_LATENCY, number of observations per label
    result,         \* Some(what the last call returned), None while none
    reasons_in      \* argument of _adverse_action_reasons

vars == <<pc, data, v1_out, v2_out, use_v2, request_count, latency_obs,
          result, reasons_in>>

-----------------------------------------------------------------------------
(* Fixed-point arithmetic                                                  *)

K == 10 * 100
U == K * K          \* one, in micros
Mill == K           \* one dollar, in mills

Max(a, b) == IF a >= b THEN a ELSE b
Min(a, b) == IF a <= b THEN a ELSE b
Abs(a) == IF a < 0 THEN -a ELSE a
Sgn(a) == IF a < 0 THEN -1 ELSE 1

\* floor(a*b / 10^6) for a, b >= 0, by splitting both in base 1000
MulNat(a, b) ==
    LET ah == a \div K  al == a % K
        bh == b \div K  bl == b % K
    IN  ah * bh + ((ah * bl + al * bh + ((al * bl) \div K)) \div K)

\* a*b / 10^6, truncated toward zero
MulS(a, b) == Sgn(a) * Sgn(b) * MulNat(Abs(a), Abs(b))

\* long division: `steps` further decimal digits of rem / b after acc
RECURSIVE LongDiv(_, _, _, _)
LongDiv(rem, b, steps, acc) ==
    IF steps = 0 THEN acc
    ELSE LongDiv((rem * 10) % b, b, steps - 1, acc * 10 + ((rem * 10) \div b))

\* floor(a * 10^6 / b) for a >= 0, b > 0
DivNat(a, b) == LongDiv(a % b, b, 6, a \div b)

\* a / b as a micro ratio, truncated toward zero (b # 0)
DivS(a, b) == Sgn(a) * Sgn(b) * DivNat(Abs(a), Abs(b))

\* The same at scale 10^8 (H), for the amortization factors: split in base
\* 10^4.  Values stay below 21.
K4 == 100 * 100
H == K4 * K4        \* one, at scale 10^8

MulH(a, b) ==
    LET ah == a \div K4  al == a % K4
        bh == b \div K4  bl == b % K4
    IN  ah * bh + ((ah * bl + al * bh + ((al * bl) \div K4)) \div K4)

\* floor(a * 10^8 / b) for a >= 0, b > 0; a divisor of 2 or more (at scale
\* 10^8) is first cut by one digit so that rem * 10 stays in range
DivH(a, b) ==
    IF b < 2 * H THEN LongDiv(a % b, b, 8, a \div b)
    ELSE LET c == b \div 10
         IN  LongDiv(a % c, c, 8, a \div c) \div 10

\* math.pow(x, n) for x at scale 10^8 and a natural n, by squaring
RECURSIVE PowH(_, _)
PowH(x, n) ==
    IF n = 0 THEN H
    ELSE LET h == PowH(x, n \div 2)
             sq == MulH(h, h)
         IN  IF n % 2 = 0 THEN sq ELSE MulH(sq, x)

\* the same for a micro x
RECURSIVE Pow(_, _)
Pow(x, n) ==
    IF n = 0 THEN U
    ELSE LET h == Pow(x, n \div 2)
             sq == MulS(h, h)
         IN  IF n % 2 = 0 THEN sq ELSE MulS(sq, x)

\* round(x, d): to the nearest multiple of step (half away from zero)
RoundTo(x, step) == Sgn(x) * (((Abs(x) + (step \div 2)) \div step) * step)

\* _round_money: round(float(x), 2); a cent is 10 mills
_round_money(x) == RoundTo(x, 10)

-----------------------------------------------------------------------------
(* Amortization (underwriting._monthly_payment, model_v2._monthly_payment, *)
(* model_v2._principal_from_payment)                                       *)

\* principal * (r * pow(1+r, months)) / (pow(1+r, months) - 1).  r, pow
\* and the factor (r*pow)/(pow-1) are held at scale 10^8; the factor is
\* formed first so that the truncation error stays at one mill.
_monthly_payment(principal, apr, months) ==
    LET r == (apr * 100) \div 12
        p == PowH(H + r, months)
    IN  IF months <= 0 THEN 0
        ELSE IF r = 0 THEN principal \div months
        ELSE MulH(principal, DivH(MulH(r, p), p - H))

\* payment * (pow(1+r, months) - 1) / (r * pow(1+r, months))
_principal_from_payment(payment, apr, months) ==
    LET r == (apr * 100) \div 12
        p == PowH(H + r, months)
        denom == MulH(r, p)
    IN  IF months <= 0 \/ payment <= 0 THEN 0
        ELSE IF r = 0 THEN payment * months
        ELSE IF denom = 0 THEN 0
        ELSE DivH(MulH(payment, p - H), denom)

-----------------------------------------------------------------------------
(* Strings                                                                 *)

\* Python's  pat in s
Contains(s, pat) ==
    \E i \in 1..(Len(s) - Len(pat) + 1) : SubSeq(s, i, i + Len(pat) - 1) = pat

Uppers == "ABCDEFGHIJKLMNOPQRSTUVWXYZ"
Lowers == "abcdefghijklmnopqrstuvwxyz"

\* upper-case letter |-> lower-case letter
LowerOf ==
    [c \in {SubSeq(Uppers, i, i) : i \in 1..Len(Uppers)} |->
        LET i == CHOOSE j \in 1..Len(Uppers) : SubSeq(Uppers, j, j) = c
        IN  SubSeq(Lowers, i, i)]

LowerChar(c) == IF c \in DOMAIN LowerOf THEN LowerOf[c] ELSE c

\* str.lower()
RECURSIVE Lower(_)
Lower(s) ==
    IF Len(s) = 0 THEN s
    ELSE LowerChar(SubSeq(s, 1, 1)) \o Lower(SubSeq(s, 2, Len(s)))

\* two decimal digits of a number below 100
TwoDigits(n) == IF n < 10 THEN "0" \o ToString(n) ELSE ToString(n)

\* f"{x:.2f}" of a non-negative micro ratio
Fmt2f(x) ==
    LET h == (x + 5000) \div 10000      \* hundredths, rounded
    IN  ToString(h \div 100) \o "." \o TwoDigits(h % 100)

\* str() of a float holding a non-negative money value already rounded to
\* cents: the shortest decimal, with at least one fractional digit
FloatStr(m) ==
    LET cents == m \div 10
        d == cents \div 100
        f == cents % 100
    IN  ToString(d) \o "." \o
        (IF f % 10 = 0 THEN ToString(f \div 10) ELSE TwoDigits(f))

\* the value of an `if cond: reasons.append(msg)` statement
Opt(cond, msg) == IF cond THEN <<msg>> ELSE <<>>

\* an optional value: None, or Some(x)
None == <<>>
Some(x) == <<x>>
IsSome(o) == Len(o) = 1
The(o) == o[1]

-----------------------------------------------------------------------------
(* v1 evaluator: underwriting.py                                           *)

_apr_from_credit_score_v1(credit) ==
    IF credit >= 760 THEN 60000
    ELSE IF credit >= 700 THEN 80000
    ELSE IF credit >= 660 THEN 110000
    ELSE IF credit >= 620 THEN 150000
    ELSE 220000

_apr_from_credit_score_v2(credit) ==
    IF credit >= 760 THEN 55000
    ELSE IF credit >= 700 THEN 75000
    ELSE IF credit >= 660 THEN 105000
    ELSE IF credit >= 620 THEN 140000
    ELSE 210000

\* underwriting._risk_grade(credit, dti)
_risk_grade_v1(credit, dti) ==
    IF credit >= 760 /\ dti <= 350000 THEN "A"
    ELSE IF credit >= 700 /\ dti <= 400000 THEN "B"
    ELSE IF credit >= 660 /\ dti <= 430000 THEN "C"
    ELSE IF credit >= 620 /\ dti <= 450000 THEN "D"
    ELSE "E"

_max_loan_amount(income, credit) ==
    LET base == Max(2000 * Mill, Min(50000 * Mill, MulS(income, 800000)))
    IN  IF credit >= 760 THEN base
        ELSE IF credit >= 700 THEN MulS(base, 900000)
        ELSE IF credit >= 660 THEN MulS(base, 750000)
        ELSE IF credit >= 620 THEN MulS(base, 600000)
        ELSE MulS(base, 400000)

\* the category one raw reason is mapped to
MapReason(r) ==
    IF Contains(r, "DTI") THEN "High debt-to-income ratio"
    ELSE IF Contains(r, "Credit score") THEN "Credit score below policy threshold"
    ELSE IF Contains(Lower(r), "income") THEN "Insufficient income for requested credit"
    ELSE IF Contains(r, "Employment") THEN "Insufficient employment history"
    ELSE IF Contains(r, "Loan amount") THEN "Requested amount exceeds policy limits"
    ELSE r

\* the first loop: mapped = [MapReason(r) for r in reasons]
Mapped(reasons) == [i \in 1..Len(reasons) |-> MapReason(reasons[i])]

\* the second loop without its membership test
DedupeKeepAll(mapped, out) == out \o mapped

\* the second loop: append x unless it is already in out
RECURSIVE Dedupe(_, _)
Dedupe(mapped, out) ==
    IF mapped = <<>> THEN out
    ELSE LET x == Head(mapped)
         IN  Dedupe(Tail(mapped),
                    IF \E j \in 1..Len(out) : out[j] = x THEN out
                    ELSE Append(out, x))

TopReasons == 4

_adverse_action_reasons(reasons) ==
    LET out == Dedupe(Mapped(reasons), <<>>)
    IN  SubSeq(out, 1, Min(TopReasons, Len(out)))

\* the rule without its low-credit branch
ManualReviewAgeOnly(d) == d.loan_amount >= 35000 * Mill /\ d.age < 23

_manual_review_needed(d) ==
    \/ d.loan_amount >= 35000 * Mill /\ d.age < 23
    \/ d.credit_score < 600 /\ d.loan_amount >= 15000 * Mill

\* the counteroffer search: 30 bisection steps on [lo, hi]
RECURSIVE CounterSearch(_, _, _, _, _, _)
CounterSearch(lo, hi, n, target_payment, apr, term) ==
    IF n = 0 THEN lo
    ELSE LET mid == (lo + hi) \div 2
             p == _monthly_payment(mid, apr, term)
         IN  IF p > target_payment
             THEN CounterSearch(lo, mid, n - 1, target_payment, apr, term)
             ELSE CounterSearch(mid, hi, n - 1, target_payment, apr, term)

SearchIterations == 30

\* data.get("housing_payment", 0.0)
HousingOf(d) ==
    IF "housing_payment" \in DOMAIN d THEN d.housing_payment ELSE 0

\* the checks with an exit at the first failure
RECURSIVE FirstFailure(_)
FirstFailure(checks) ==
    IF checks = <<>> THEN <<>>
    ELSE IF Head(checks) # <<>> THEN Head(checks)
    ELSE FirstFailure(Tail(checks))

V1ReasonsEarlyExit(d, max_amt, dti) ==
    FirstFailure(<<
        Opt(d.age < 18, "Applicant must be 18+."),
        Opt(d.employment_years < 0, "Employment years must be non-negative."),
        Opt(d.annual_income <= 0, "Annual income must be positive."),
        Opt(d.loan_amount <= 0 \/ d.loan_term_months <= 0,
            "Loan amount/term must be positive."),
        Opt(d.credit_score < 300 \/ d.credit_score > 850,
            "Credit score must be between 300 and 850."),
        Opt(d.employment_years < U, "Employment length must be >= 1 year."),
        Opt(d.credit_score < 580, "Credit score below minimum (580)."),
        Opt(d.annual_income < 25000 * Mill,
            "Annual income below minimum ($25,000)."),
        Opt(d.loan_amount > max_amt,
            "Loan amount exceeds max allowed ($"
                \o FloatStr(_round_money(max_amt)) \o ")."),
        Opt(dti > 450000, "DTI too high (" \o Fmt2f(dti) \o " > 0.45).")>>)

\* the reasons accumulated by the eligibility and policy checks and by the
\* DTI check, in statement order (no early exit)
V1Reasons(d, max_amt, dti) ==
       Opt(d.age < 18, "Applicant must be 18+.")
    \o Opt(d.employment_years < 0, "Employment years must be non-negative.")
    \o Opt(d.annual_income <= 0, "Annual income must be positive.")
    \o Opt(d.loan_amount <= 0 \/ d.loan_term_months <= 0,
           "Loan amount/term must be positive.")
    \o Opt(d.credit_score < 300 \/ d.credit_score > 850,
           "Credit score must be between 300 and 850.")
    \o Opt(d.employment_years < U, "Employment length must be >= 1 year.")
    \o Opt(d.credit_score < 580, "Credit score below minimum (580).")
    \o Opt(d.annual_income < 25000 * Mill,
           "Annual income below minimum ($25,000).")
    \o Opt(d.loan_amount > max_amt,
           "Loan amount exceeds max allowed ($"
               \o FloatStr(_round_money(max_amt)) \o ").")
    \o Opt(dti > 450000, "DTI too high (" \o Fmt2f(dti) \o " > 0.45).")

\* est_payment of underwrite
V1EstPayment(d, version) ==
    LET apr == IF version = "v2" THEN _apr_from_credit_score_v2(d.credit_score)
               ELSE _apr_from_credit_score_v1(d.credit_score)
    IN  _monthly_payment(d.loan_amount, apr, d.loan_term_months)

\* x / monthly_income, where monthly_income = income / 12.0: formed as
\* 12x / income, which loses nothing to the division by 12
OverMonthlyIncome(x, income) == DivS(12 * x, income)

\* monthly_income * c for a micro coefficient c
TimesMonthlyIncome(income, c) == MulS(income, c) \div 12

\* dti of underwrite
V1Dti(d, version) ==
    LET monthly_income == d.annual_income \div 12
        total_monthly_obligations ==
            d.monthly_debt_payments + HousingOf(d) + V1EstPayment(d, version)
    IN  IF monthly_income > 0
        THEN OverMonthlyIncome(total_monthly_obligations, d.annual_income)
        ELSE U

\* pti of underwrite (computed only when no reason accumulated, so that
\* monthly_income > 0)
V1Pti(d, version) ==
    OverMonthlyIncome(V1EstPayment(d, version), d.annual_income)

\* the manual review path taken ahead of the DTI reason
ReferBeforeDti(reasons, d) ==
    /\ \A k \in 1..Len(reasons) : SubSeq(reasons[k], 1, 3) = "DTI"
    /\ _manual_review_needed(d)

\* the guard of the manual review path: `if not reasons and
\* _manual_review_needed(data)`
V1Refer(reasons, d) == reasons = <<>> /\ _manual_review_needed(d)

\* underwrite(data, version=version); decision_id and timestamp_utc are
\* left out (a hash and the wall clock: no decision reads them)
underwrite(d, version) ==
    LET income == d.annual_income
        credit == d.credit_score
        loan_amount == d.loan_amount
        term == d.loan_term_months
        max_amt == _max_loan_amount(income, credit)
        apr == IF version = "v2" THEN _apr_from_credit_score_v2(credit)
               ELSE _apr_from_credit_score_v1(credit)
        est_payment == V1EstPayment(d, version)
        dti == V1Dti(d, version)
        reasons == V1Reasons(d, max_amt, dti)
        pti == V1Pti(d, version)
        approved_amount ==
            IF pti > 150000
            THEN _round_money(CounterSearch(1000 * Mill, loan_amount,
                                            SearchIterations,
                                            TimesMonthlyIncome(income, 130000),
                                            apr, term))
            ELSE loan_amount
        orig_fee == _round_money(Max(99 * Mill,
                                     Min(MulS(loan_amount, 20000), 499 * Mill)))
        final_payment == _monthly_payment(approved_amount, apr, term)
    IN  IF V1Refer(reasons, d)
        THEN [model_version |-> version,
              decision |-> "REFER",
              risk_grade |-> _risk_grade_v1(credit, dti),
              dti |-> RoundTo(dti, K),
              reasons |-> <<"Application requires manual review.">>,
              offer |-> <<>>]
        ELSE IF reasons # <<>>
        THEN [model_version |-> version,
              decision |-> "REJECTED",
              risk_grade |-> _risk_grade_v1(credit, dti),
              dti |-> RoundTo(dti, K),
              reasons |-> reasons,
              adverse_action_reasons |-> _adverse_action_reasons(reasons),
              pricing |-> [apr_percent |-> RoundTo(apr * 100, 10000),
                           estimated_monthly_payment |-> _round_money(est_payment)],
              offer |-> <<>>]
        ELSE [model_version |-> version,
              decision |-> IF approved_amount = loan_amount
                           THEN "APPROVED" ELSE "COUNTEROFFER",
              risk_grade |-> _risk_grade_v1(credit, dti),
              dti |-> RoundTo(dti, K),
              reasons |-> <<>>,
              pricing |-> [apr_percent |-> RoundTo(apr * 100, 10000),
                           monthly_payment |-> _round_money(final_payment),
                           origination_fee |-> orig_fee],
              offer |-> <<[approved_amount |-> approved_amount,
                           term_months |-> term,
                           apr_percent |-> RoundTo(apr * 100, 10000),
                           origination_fee |-> orig_fee,
                           estimated_monthly_payment |->
                               _round_money(final_payment)]>>]

-----------------------------------------------------------------------------
(* v2 evaluator: model_v2.py                                               *)

DTI_CAP == 450000
PTI_CAP == 180000

MIN_LOAN == 1000
MAX_LOAN == 100000
MIN_TERM == 12
MAX_TERM == 84

\* the pricing grid with the 740 band priced above the 700 band
AprGridSwapped(credit_score) ==
    IF credit_score >= 780 THEN 55000
    ELSE IF credit_score >= 740 THEN 85000
    ELSE IF credit_score >= 700 THEN 79000
    ELSE IF credit_score >= 660 THEN 105000
    ELSE IF credit_score >= 620 THEN 139000
    ELSE IF credit_score >= 580 THEN 179000
    ELSE 219000

_apr_from_credit_score(credit_score) ==
    IF credit_score >= 780 THEN 55000
    ELSE IF credit_score >= 740 THEN 65000
    ELSE IF credit_score >= 700 THEN 79000
    ELSE IF credit_score >= 660 THEN 105000
    ELSE IF credit_score >= 620 THEN 139000
    ELSE IF credit_score >= 580 THEN 179000
    ELSE 219000

\* sum of the series 1 - f + f^2/2! - f^3/3! + ... from the term `term`
\* (the k-th) on, for 0 <= f <= 1
RECURSIVE ExpSeries(_, _, _)
ExpSeries(f, term, k) ==
    IF term = 0 THEN 0
    ELSE term + ExpSeries(f, -(MulS(term, f) \div (k + 1)), k + 1)

\* math.exp(-x) for x >= 0: e^-1 to the integer part of x, times the series
\* at its fractional part; below one micro from x = 14 on
ExpNeg(x) ==
    IF x >= 14 * U THEN 0
    ELSE MulS(Pow(ExpSeries(U, U, 0), x \div U), ExpSeries(x % U, U, 0))

\* 1.0 / (1.0 + exp(-x)); for x < 0, exp(-x) = 1/exp(x) is used so that the
\* intermediate value stays in range
_sigmoid(x) ==
    IF x >= 0 THEN DivS(U, U + ExpNeg(x))
    ELSE LET e == ExpNeg(-x) IN DivS(e, U + e)

\* model_v2._risk_grade(p)
_risk_grade(p) ==
    IF p >= 850000 THEN "A"
    ELSE IF p >= 750000 THEN "B"
    ELSE IF p >= 650000 THEN "C"
    ELSE IF p >= 550000 THEN "D"
    ELSE "E"

\* (A) the hard stops, in statement order (no early exit)
V2HardStops(d) ==
       Opt(d.age < 18, "Applicant must be 18+.")
    \o Opt(d.annual_income <= 0, "Income must be greater than $0.")
    \o Opt(d.credit_score < 560, "Credit score below minimum (560).")
    \o Opt(d.loan_term_months < MIN_TERM \/ d.loan_term_months > MAX_TERM,
           "Term must be 12-84 months.")
    \o Opt(d.loan_amount < MIN_LOAN * Mill \/ d.loan_amount > MAX_LOAN * Mill,
           "Loan amount must be $1,000-$100,000.")

V2EstPayment(d) ==
    _monthly_payment(d.loan_amount, _apr_from_credit_score(d.credit_score),
                     d.loan_term_months)

V2MonthlyIncome(d) == IF d.annual_income > 0 THEN d.annual_income \div 12 ELSE 0

V2Dti(d) ==
    IF V2MonthlyIncome(d) > 0
    THEN OverMonthlyIncome(d.monthly_debt_payments + V2EstPayment(d),
                           d.annual_income)
    ELSE U

V2Pti(d) ==
    IF V2MonthlyIncome(d) > 0
    THEN OverMonthlyIncome(V2EstPayment(d), d.annual_income)
    ELSE U

\* (B) max_affordable_loan
V2MaxAffordableLoan(d) ==
    LET income == IF d.annual_income > 0 THEN d.annual_income ELSE 0
        max_by_pti == TimesMonthlyIncome(income, PTI_CAP)
        max_by_dti == TimesMonthlyIncome(income, DTI_CAP)
                          - d.monthly_debt_payments
        max_affordable_payment == Max(0, Min(max_by_pti, max_by_dti))
    IN  _principal_from_payment(max_affordable_payment,
                                _apr_from_credit_score(d.credit_score),
                                d.loan_term_months)

\* (D) the scorecard
V2Z(d) ==
      -1900000
    + 7000 * (d.credit_score - 650)
    + MulS(12000, d.annual_income - 50000 * Mill)
    + MulS(220000, d.employment_years - 2 * U)
    - 6 * (V2Dti(d) - 350000)
    - MulS(2800000, V2Pti(d) - 160000)
    - 500000 * (IF d.age < 21 THEN 1 ELSE 0)
    - MulS(18000, d.loan_amount)

\* approval_prob, before rounding
V2ApprovalProb(d) == _sigmoid(V2Z(d))

\* the counteroffer without the test that max_affordable_loan is positive
V2CounterofferUnguarded(d) ==
    LET max_affordable_loan == V2MaxAffordableLoan(d)
    IN  IF d.loan_amount > MulS(max_affordable_loan, 1020000)
        THEN <<max_affordable_loan>>
        ELSE <<>>

\* (C) counteroffer: <<>> is None
V2Counteroffer(d) ==
    LET max_affordable_loan == V2MaxAffordableLoan(d)
    IN  IF max_affordable_loan > 0
           /\ d.loan_amount > MulS(max_affordable_loan, 1020000)
        THEN <<max_affordable_loan>>
        ELSE <<>>

\* the bands with approval from 0.60 on
V2DecisionLowBar(counteroffer, approval_prob, dti, pti) ==
    IF counteroffer # <<>> THEN "MANUAL_REVIEW"
    ELSE IF approval_prob >= 600000 /\ dti <= DTI_CAP /\ pti <= PTI_CAP
         THEN "APPROVED"
    ELSE "REJECTED"

\* the final decision bands
V2Decision(counteroffer, approval_prob, dti, pti) ==
    IF counteroffer # <<>> THEN "MANUAL_REVIEW"
    ELSE IF approval_prob >= 750000 /\ dti <= DTI_CAP /\ pti <= PTI_CAP
         THEN "APPROVED"
    ELSE IF approval_prob >= 600000 THEN "MANUAL_REVIEW"
    ELSE "REJECTED"

\* predict(data)
predict(d) ==
    LET credit == d.credit_score
        hard == V2HardStops(d)
        apr == _apr_from_credit_score(credit)
        est_payment == V2EstPayment(d)
        dti == V2Dti(d)
        pti == V2Pti(d)
        max_affordable_loan == V2MaxAffordableLoan(d)
        approval_prob == V2ApprovalProb(d)
        soft ==    Opt(dti > DTI_CAP, "DTI exceeds affordability cap.")
                \o Opt(pti > PTI_CAP,
                       "Payment-to-income exceeds affordability cap.")
                \o Opt(d.employment_years < U \div 2,
                       "Limited employment history.")
                \o Opt(credit < 620, "Subprime credit band (higher risk).")
        counteroffer == V2Counteroffer(d)
        out == [decision |-> V2Decision(counteroffer, approval_prob, dti, pti),
                risk_grade |-> _risk_grade(approval_prob),
                approval_probability |-> RoundTo(approval_prob, K),
                reasons |-> soft \o Opt(counteroffer # <<>>,
                              "Requested amount exceeds max affordable loan."),
                apr |-> RoundTo(apr * 100, 10000),
                estimated_monthly_payment |-> _round_money(est_payment),
                dti |-> RoundTo(dti, K),
                pti |-> RoundTo(pti, K),
                max_affordable_loan |-> RoundTo(max_affordable_loan, Mill)]
    IN  IF hard # <<>>
        THEN [decision |-> "REJECTED",
              risk_grade |-> "E",
              approval_probability |-> 0,
              reasons |-> hard,
              apr |-> RoundTo(apr * 100, 10000),
              estimated_monthly_payment |-> _round_money(est_payment),
              dti |-> RoundTo(dti, K),
              pti |-> RoundTo(pti, K)]
        ELSE IF counteroffer # <<>>
        THEN [f \in DOMAIN out \cup {"counteroffer_loan_amount"} |->
                 IF f = "counteroffer_loan_amount"
                 THEN RoundTo(counteroffer[1], Mill)
                 ELSE out[f]]
        ELSE out

-----------------------------------------------------------------------------
(* Inputs                                                                  *)

Ages == {17, 20, 30}
EmploymentYears == {-U, 3 * (U \div 10), 3 * U}
Incomes == {0, 20000 * Mill, 30000 * Mill, 62500 * Mill}
CreditScores == {250, 570, 590, 640, 680, 720, 780}
Debts == {0, 1000 * Mill, 3000 * Mill}
LoanAmounts == {500 * Mill, 1000 * Mill, 2000 * Mill, 20000 * Mill,
                40000 * Mill, 120000 * Mill}
Terms == {0, 1, 36, 96}
Housings == {800 * Mill}
Versions == {"v1", "v2"}

\* the records main.check builds from the form (no housing_payment)
FormApps ==
    [annual_income : Incomes, credit_score : CreditScores,
     monthly_debt_payments : Debts, loan_amount : LoanAmounts,
     loan_term_months : Terms, employment_years : EmploymentYears,
     age : Ages]

\* direct callers of underwrite that also give the optional housing_payment
HousingApps ==
    {a @@ [housing_payment |-> h] :
        a \in {x \in FormApps : x.age = 30 /\ x.employment_years = 3 * U},
        h \in Housings}

Apps == FormApps \cup HousingApps

-----------------------------------------------------------------------------
(* The evaluators as functions: one call of underwrite or predict on an    *)
(* application drawn from Apps                                             *)

InitEval ==
    /\ pc = "input"
    /\ data \in Apps
    /\ v1_out = None /\ v2_out = None /\ use_v2 = None
    /\ request_count = None /\ latency_obs = None
    /\ result = None
    /\ reasons_in = None

CallUnderwrite(version) ==
    /\ pc = "input"
    /\ result' = Some(underwrite(data, version))
    /\ pc' = "underwrite_done"
    /\ UNCHANGED <<data, v1_out, v2_out, use_v2, request_count, latency_obs,
                   reasons_in>>

CallPredict ==
    /\ pc = "input"
    /\ result' = Some(predict(data))
    /\ pc' = "predict_done"
    /\ UNCHANGED <<data, v1_out, v2_out, use_v2, request_count, latency_obs,
                   reasons_in>>

NextEval ==
    \/ \E version \in Versions : CallUnderwrite(version)
    \/ CallPredict

SpecEval == InitEval /\ [][NextEval]_vars

-----------------------------------------------------------------------------
(* The adverse-action mapper as a function: a reason list is built up one  *)
(* reason at a time and _adverse_action_reasons is applied to it           *)

MaxReasons == 5

ReasonPool ==
    {"DTI too high (0.52 > 0.45).",
     "Credit score below minimum (580).",
     "Credit score must be between 300 and 850.",
     "Income must be greater than $0.",
     "Loan amount/term must be positive.",
     "Applicant must be 18+."}

InitAA ==
    /\ pc = "aa_input"
    /\ reasons_in = <<>>
    /\ data = None
    /\ v1_out = None /\ v2_out = None /\ use_v2 = None
    /\ request_count = None /\ latency_obs = None
    /\ result = None

AppendReason(r) ==
    /\ pc = "aa_input"
    /\ Len(reasons_in) < MaxReasons
    /\ reasons_in' = Append(reasons_in, r)
    /\ UNCHANGED <<pc, data, v1_out, v2_out, use_v2, request_count,
                   latency_obs, result>>

CallAdverseAction ==
    /\ pc = "aa_input"
    /\ result' = Some(_adverse_action_reasons(reasons_in))
    /\ pc' = "aa_done"
    /\ UNCHANGED <<data, v1_out, v2_out, use_v2, request_count, latency_obs,
                   reasons_in>>

NextAA ==
    \/ \E r \in ReasonPool : AppendReason(r)
    \/ CallAdverseAction

SpecAA == InitAA /\ [][NextAA]_vars

-----------------------------------------------------------------------------
(* The decision router: main.check calling main._decide                    *)

MaxRequests == 2

Models == {"v1", "v2"}

\* the applications the router is run on
RouterApps ==
    {a \in FormApps :
        /\ a.age = 30 /\ a.employment_years = 3 * U
        /\ a.monthly_debt_payments = 0
        /\ a.loan_term_months = 36}

\* model_v1.predict: the v1 evaluator of the specification, section 4.2
v1_predict(d) == underwrite(d, "v1")

\* model_v2.predict
v2_predict(d) == predict(d)

\* chosen = v2_out if use_v2 else v1_out
Chosen(flag, v1, v2) == IF flag THEN v2 ELSE v1

\* model = "v2" if use_v2 else "v1"
Model(flag) == IF flag THEN "v2" ELSE "v1"

\* the shadow picked by the same test as chosen
ShadowAsChosen(model, v1, v2) == IF model = "v2" THEN v2 ELSE v1

\* "shadow": v1_out if model == "v2" else v2_out
Shadow(model, v1, v2) == IF model = "v2" THEN v1 ELSE v2

Init ==
    /\ pc = "idle"
    /\ data = None
    /\ v1_out = None /\ v2_out = None /\ use_v2 = None
    /\ request_count = [m \in Models |-> 0]
    /\ latency_obs = [m \in Models |-> 0]
    /\ result = None
    /\ reasons_in = None

\* check: the form is read into data and _decide(data, ctx) is entered
Check(d) ==
    /\ pc = "idle"
    /\ request_count["v1"] + request_count["v2"] < MaxRequests
    /\ data' = d
    /\ v1_out' = None /\ v2_out' = None /\ use_v2' = None
    /\ result' = None
    /\ pc' = "decide"
    /\ UNCHANGED <<request_count, latency_obs, reasons_in>>

\* v1_out = v1_predict(data)
DecideV1 ==
    /\ pc = "decide"
    /\ v1_out' = Some(v1_predict(data))
    /\ pc' = "v1_done"
    /\ UNCHANGED <<data, v2_out, use_v2, request_count, latency_obs, result,
                   reasons_in>>

\* v2_out = v2_predict(data)
DecideV2 ==
    /\ pc = "v1_done"
    /\ v2_out' = Some(v2_predict(data))
    /\ pc' = "v2_done"
    /\ UNCHANGED <<data, v1_out, use_v2, request_count, latency_obs, result,
                   reasons_in>>

\* use_v2 = is_enabled("model_v2_enabled", context=ctx): the flag provider
\* answers either way
DecideFlag(flag) ==
    /\ pc = "v2_done"
    /\ use_v2' = Some(flag)
    /\ pc' = "flag_read"
    /\ UNCHANGED <<data, v1_out, v2_out, request_count, latency_obs, result,
                   reasons_in>>

\* REQUEST_COUNT.labels(model).inc(); PREDICTION_LATENCY.labels(model).observe
DecideMetrics ==
    /\ pc = "flag_read"
    /\ request_count' = [request_count EXCEPT ![Model(The(use_v2))] = @ + 1]
    /\ latency_obs' = [latency_obs EXCEPT ![Model(The(use_v2))] = @ + 1]
    /\ pc' = "metrics_done"
    /\ UNCHANGED <<data, v1_out, v2_out, use_v2, result, reasons_in>>

\* return {"model": model, "chosen": chosen, "shadow": ...}
DecideReturn ==
    /\ pc = "metrics_done"
    /\ result' = Some([model |-> Model(The(use_v2)),
                       chosen |-> Chosen(The(use_v2), The(v1_out), The(v2_out)),
                       shadow |-> Shadow(Model(The(use_v2)), The(v1_out),
                                         The(v2_out))])
    /\ pc' = "idle"
    /\ UNCHANGED <<data, v1_out, v2_out, use_v2, request_count, latency_obs,
                   reasons_in>>

Next ==
    \/ \E d \in RouterApps : Check(d)
    \/ DecideV1
    \/ DecideV2
    \/ \E flag \in BOOLEAN : DecideFlag(flag)
    \/ DecideMetrics
    \/ DecideReturn

Spec == Init /\ [][Next]_vars

-----------------------------------------------------------------------------
(* Claims                                                                  *)

\* which evaluator a decision record comes from: underwrite tags its output
\* with model_version, predict reports an approval_probability
IsV1Output(o) == "model_version" \in DOMAIN o
IsV2Output(o) == "approval_probability" \in DOMAIN o

\* C1: the router reads the flag only after both evaluators have produced
\* their results; it returns model "v2", chosen = the v2 result and shadow =
\* the v1 result when the flag is true, model "v1", chosen = the v1 result
\* and shadow = the v2 result when it is false; chosen and shadow never come
\* from the same evaluator.
C1_RouterSelection ==
    /\ IsSome(use_v2) => IsSome(v1_out) /\ IsSome(v2_out)
    /\ IsSome(result) =>
          /\ IsSome(use_v2)
          /\ The(use_v2) =>
                /\ The(result).model = "v2"
                /\ The(result).chosen = The(v2_out)
                /\ The(result).shadow = The(v1_out)
          /\ ~The(use_v2) =>
                /\ The(result).model = "v1"
                /\ The(result).chosen = The(v1_out)
                /\ The(result).shadow = The(v2_out)
          /\ IsV1Output(The(v1_out)) /\ ~IsV2Output(The(v1_out))
          /\ IsV2Output(The(v2_out)) /\ ~IsV1Output(The(v2_out))
          /\ IsV1Output(The(result).chosen) # IsV1Output(The(result).shadow)

\* a call returned with the flag on, and with the two evaluators disagreeing
C1_Witness ==
    /\ IsSome(result)
    /\ The(use_v2)
    /\ The(result).model = "v2"
    /\ The(result).chosen.decision = "MANUAL_REVIEW"
    /\ The(result).shadow.decision = "COUNTEROFFER"

\* the position of the first entry of the sequence m equal to c
FirstPos(m, c) ==
    CHOOSE k \in 1..Len(m) : m[k] = c /\ \A j \in 1..(k - 1) : m[j] # c

Categories ==
    {"High debt-to-income ratio", "Credit score below policy threshold",
     "Insufficient income for requested credit",
     "Insufficient employment history",
     "Requested amount exceeds policy limits"}

\* C7: the mapper's output has no duplicates and at most 4 entries; each
\* entry is a canonical category or an input reason passed through, and is
\* the category of some input reason; entries are ordered by the first
\* position of their category in the input; the output is the first 4 of the
\* distinct categories in first-seen order.
C7_AdverseActionList ==
    pc = "aa_done" =>
        LET out == The(result)
            m == [k \in 1..Len(reasons_in) |-> MapReason(reasons_in[k])]
            cats == {m[k] : k \in 1..Len(m)}
        IN  /\ \A i, j \in 1..Len(out) : i # j => out[i] # out[j]
            /\ Len(out) <= 4
            /\ \A i \in 1..Len(out) :
                  /\ out[i] \in cats
                  /\ \/ out[i] \in Categories
                     \/ \E k \in 1..Len(reasons_in) : reasons_in[k] = out[i]
            /\ \A i, j \in 1..Len(out) :
                  i < j => FirstPos(m, out[i]) < FirstPos(m, out[j])
            /\ Len(out) = Min(4, Cardinality(cats))
            /\ \A c \in cats :
                  (\A i \in 1..Len(out) : out[i] # c) =>
                      \A i \in 1..Len(out) : FirstPos(m, out[i]) < FirstPos(m, c)

\* five reasons came in, two of them of one category and the last of a fifth
\* category: the duplicate is dropped and the list is cut to 4, its last
\* entry a reason passed through verbatim
C7_Witness ==
    /\ pc = "aa_done"
    /\ Len(reasons_in) = 5
    /\ reasons_in[1] = "Credit score below minimum (580)."
    /\ reasons_in[2] = "Credit score must be between 300 and 850."
    /\ reasons_in[3] = "Income must be greater than $0."
    /\ reasons_in[4] = "Applicant must be 18+."
    /\ reasons_in[5] = "DTI too high (0.52 > 0.45)."
    /\ The(result) = <<"Credit score below policy threshold",
                       "Insufficient income for requested credit",
                       "Applicant must be 18+.",
                       "High debt-to-income ratio">>

-----------------------------------------------------------------------------
(* Claims about the evaluators, under SpecEval                             *)

HasPrefix(str, pre) == Len(str) >= Len(pre) /\ SubSeq(str, 1, Len(pre)) = pre

\* the record the finished call returned
Out == The(result)

\* the manual-review rule, as the specification states it
ManualReviewRule(d) ==
    \/ d.loan_amount >= 35000 * Mill /\ d.age < 23
    \/ d.credit_score < 600 /\ d.loan_amount >= 15000 * Mill

\* no eligibility or policy check of the v1 evaluator fails
V1EligibilityPasses(d) ==
    /\ d.age >= 18
    /\ d.employment_years >= 0
    /\ d.annual_income > 0
    /\ d.loan_amount > 0 /\ d.loan_term_months > 0
    /\ d.credit_score >= 300 /\ d.credit_score <= 850
    /\ d.employment_years >= U
    /\ d.credit_score >= 580
    /\ d.annual_income >= 25000 * Mill
    /\ d.loan_amount <= _max_loan_amount(d.annual_income, d.credit_score)

\* no reason accumulates: eligibility passes and DTI is at most 0.45
V1NoReason(d, version) ==
    V1EligibilityPasses(d) /\ V1Dti(d, version) <= 450000

\* C2 (as claimed): with no reason and no manual review, PTI > 0.15 gives a
\* COUNTEROFFER at a reduced amount, and PTI <= 0.15 gives APPROVED at the
\* requested amount; APPROVED is never returned when PTI exceeds 0.15.
C2_PtiDecides ==
    (/\ pc = "underwrite_done"
     /\ V1NoReason(data, Out.model_version)
     /\ ~ManualReviewRule(data))
    => IF V1Pti(data, Out.model_version) > 150000
       THEN /\ Out.decision = "COUNTEROFFER"
            /\ The(Out.offer).approved_amount < data.loan_amount
       ELSE /\ Out.decision = "APPROVED"
            /\ The(Out.offer).approved_amount = data.loan_amount

\* C3 (as claimed): every COUNTEROFFER has an offer payment of at most
\* 0.13 + 0.001 of monthly income and an amount below the requested one.
C3_CounterofferBound ==
    (pc = "underwrite_done" /\ Out.decision = "COUNTEROFFER")
    => /\ OverMonthlyIncome(The(Out.offer).estimated_monthly_payment,
                            data.annual_income) <= 131000
       /\ The(Out.offer).approved_amount < data.loan_amount

\* C4: the v1 evaluator returns REFER exactly when no reason accumulated and
\* the manual-review rule holds; the REFER record carries the one generic
\* reason, no offer and nothing derived from pricing.
C4_ManualReview ==
    pc = "underwrite_done" =>
        /\ Out.decision = "REFER"
              <=> (V1NoReason(data, Out.model_version) /\ ManualReviewRule(data))
        /\ Out.decision = "REFER" =>
              /\ Out.reasons = <<"Application requires manual review.">>
              /\ Out.offer = None
              /\ "pricing" \notin DOMAIN Out
              /\ "adverse_action_reasons" \notin DOMAIN Out

\* the specification's example (age 20, loan 40000, otherwise compliant) is
\* referred
C4_Witness ==
    /\ pc = "underwrite_done"
    /\ data.age = 20 /\ data.loan_amount = 40000 * Mill
    /\ data.credit_score = 720
    /\ Out.decision = "REFER"
    /\ Len(Out.reasons) = 1

\* every hard stop of the v2 evaluator passes
V2PassesHardStops(d) ==
    /\ d.age >= 18
    /\ d.annual_income > 0
    /\ d.credit_score >= 560
    /\ d.loan_term_months >= 12 /\ d.loan_term_months <= 84
    /\ d.loan_amount >= 1000 * Mill /\ d.loan_amount <= 100000 * Mill

\* loan_amount > 1.02 * max_affordable_loan
ExceedsAffordable(d) ==
    d.loan_amount > MulS(V2MaxAffordableLoan(d), 1020000)

HasCounteroffer(o) == "counteroffer_loan_amount" \in DOMAIN o

\* C5 (as claimed): past the hard stops, a loan more than 2% above
\* max-affordable-loan is MANUAL_REVIEW with counteroffer_loan_amount =
\* max-affordable-loan, also when max-affordable-loan is 0.
C5_CounterofferAlways ==
    (/\ pc = "predict_done"
     /\ V2PassesHardStops(data)
     /\ ExceedsAffordable(data))
    => /\ Out.decision = "MANUAL_REVIEW"
       /\ HasCounteroffer(Out)
       /\ Out.counteroffer_loan_amount = RoundTo(V2MaxAffordableLoan(data), Mill)

\* C5 (amended): the same provided max-affordable-loan is positive; with a
\* max-affordable-loan of 0 no counteroffer is made and the decision is the
\* one of the probability bands, which is never APPROVED there.
C5_CounterofferWhenPositive ==
    (pc = "predict_done" /\ V2PassesHardStops(data))
    => /\ (V2MaxAffordableLoan(data) > 0 /\ ExceedsAffordable(data))
             => /\ Out.decision = "MANUAL_REVIEW"
                /\ HasCounteroffer(Out)
                /\ Out.counteroffer_loan_amount =
                       RoundTo(V2MaxAffordableLoan(data), Mill)
                /\ Out.counteroffer_loan_amount = Out.max_affordable_loan
       /\ V2MaxAffordableLoan(data) = 0
             => /\ ~HasCounteroffer(Out)
                /\ Out.decision =
                       (IF V2ApprovalProb(data) >= 600000
                        THEN "MANUAL_REVIEW" ELSE "REJECTED")

\* a counteroffer that overrides a probability below the 0.60 band
C5_Witness ==
    /\ pc = "predict_done"
    /\ V2PassesHardStops(data)
    /\ V2MaxAffordableLoan(data) > 0 /\ ExceedsAffordable(data)
    /\ V2ApprovalProb(data) < 600000
    /\ Out.decision = "MANUAL_REVIEW"
    /\ HasCounteroffer(Out)

\* the checks of the v1 evaluator in statement order: <<fails, message>>;
\* the two messages that quote a number are given up to the number
V1Checks(d, version) ==
    <<  <<d.age < 18, "Applicant must be 18+.">>,
        <<d.employment_years < 0, "Employment years must be non-negative.">>,
        <<d.annual_income <= 0, "Annual income must be positive.">>,
        <<d.loan_amount <= 0 \/ d.loan_term_months <= 0,
          "Loan amount/term must be positive.">>,
        <<d.credit_score < 300 \/ d.credit_score > 850,
          "Credit score must be between 300 and 850.">>,
        <<d.employment_years < U, "Employment length must be >= 1 year.">>,
        <<d.credit_score < 580, "Credit score below minimum (580).">>,
        <<d.annual_income < 25000 * Mill,
          "Annual income below minimum ($25,000).">>,
        <<d.loan_amount > _max_loan_amount(d.annual_income, d.credit_score),
          "Loan amount exceeds max allowed ($">>,
        <<V1Dti(d, version) > 450000, "DTI too high (">>  >>

\* the hard stops of the v2 evaluator in statement order
V2Checks(d) ==
    <<  <<d.age < 18, "Applicant must be 18+.">>,
        <<d.annual_income <= 0, "Income must be greater than $0.">>,
        <<d.credit_score < 560, "Credit score below minimum (560).">>,
        <<d.loan_term_months < 12 \/ d.loan_term_months > 84,
          "Term must be 12-84 months.">>,
        <<d.loan_amount < 1000 * Mill \/ d.loan_amount > 100000 * Mill,
          "Loan amount must be $1,000-$100,000.">>  >>

Failed(check) == check[1]

\* reasons is the list of the failed checks' messages, in check order
ListsFailures(reasons, checks) ==
    LET failed == SelectSeq(checks, Failed)
    IN  /\ Len(reasons) = Len(failed)
        /\ \A k \in 1..Len(failed) : HasPrefix(reasons[k], failed[k][2])

\* C6: in both evaluators an application failing any check is REJECTED and
\* the reasons of the REJECTED record are the messages of exactly the checks
\* it fails, in check order; a v2 rejection by probability carries no
\* hard-stop message.
C6_HardStopCompleteness ==
    /\ pc = "underwrite_done" =>
          LET checks == V1Checks(data, Out.model_version)
          IN  /\ (\E k \in 1..Len(checks) : Failed(checks[k]))
                    <=> Out.decision = "REJECTED"
              /\ Out.decision = "REJECTED" => ListsFailures(Out.reasons, checks)
    /\ pc = "predict_done" =>
          LET checks == V2Checks(data)
          IN  IF \E k \in 1..Len(checks) : Failed(checks[k])
              THEN /\ Out.decision = "REJECTED"
                   /\ ListsFailures(Out.reasons, checks)
              ELSE \A k \in 1..Len(checks), j \in 1..Len(Out.reasons) :
                      Out.reasons[j] # checks[k][2]

\* an application failing every check of the v1 evaluator at once
C6_Witness ==
    /\ pc = "underwrite_done"
    /\ \A k \in 1..Len(V1Checks(data, Out.model_version)) :
          Failed(V1Checks(data, Out.model_version)[k])
    /\ Out.decision = "REJECTED"
    /\ Len(Out.reasons) = 10

\* credit scores on both sides of every band edge of the three pricing grids
CreditGrid ==
    {299, 300, 559, 560, 579, 580, 619, 620, 659, 660, 699, 700, 739, 740,
     759, 760, 779, 780, 850, 851}

GradeRank(g) == CASE g = "A" -> 1 [] g = "B" -> 2 [] g = "C" -> 3
                  [] g = "D" -> 4 [] g = "E" -> 5

WithCredit(d, c) == [d EXCEPT !.credit_score = c]

\* the scores of the input set above c
Higher(c) == {c2 \in CreditScores : c2 > c}

\* the next score of the input set above c; the orders compared below are
\* transitive, and every application occurs with every score, so comparing
\* each score with the next one compares every pair
NextCredit(c) == CHOOSE c2 \in Higher(c) : \A c3 \in Higher(c) : c2 <= c3

\* C8: with every other input fixed, a higher credit score never raises the
\* priced APR (v1 grid, v2 grid of underwriting.py, grid of model_v2.py) and
\* never worsens the v1 risk grade, the v2 approval probability or the v2
\* grade.
C8_CreditMonotone ==
    /\ pc = "input" =>
          \A c \in CreditGrid \cup CreditScores :
              c > data.credit_score =>
                  /\ _apr_from_credit_score_v1(c)
                         <= _apr_from_credit_score_v1(data.credit_score)
                  /\ _apr_from_credit_score_v2(c)
                         <= _apr_from_credit_score_v2(data.credit_score)
                  /\ _apr_from_credit_score(c)
                         <= _apr_from_credit_score(data.credit_score)
    /\ (pc = "underwrite_done" /\ Higher(data.credit_score) # {}) =>
          LET better == underwrite(WithCredit(data, NextCredit(data.credit_score)),
                                   Out.model_version)
          IN  GradeRank(better.risk_grade) <= GradeRank(Out.risk_grade)
    /\ (pc = "predict_done" /\ Higher(data.credit_score) # {}) =>
          LET better == predict(WithCredit(data, NextCredit(data.credit_score)))
          IN  /\ better.approval_probability >= Out.approval_probability
              /\ better.apr <= Out.apr
              /\ GradeRank(better.risk_grade) <= GradeRank(Out.risk_grade)

\* an eligible application whose v2 probability and grade a higher credit
\* score strictly improves
C8_Witness ==
    /\ pc = "predict_done"
    /\ data.credit_score = 680
    /\ V2PassesHardStops(data)
    /\ Out.risk_grade = "D"
    /\ predict(WithCredit(data, 780)).risk_grade = "B"
    /\ predict(WithCredit(data, 780)).apr < Out.apr

\* C9: the v2 evaluator approves only past the hard stops, without a
\* counteroffer, with probability >= 0.75, dti <= 0.45 and pti <= 0.18; a
\* failed hard stop gives REJECTED, grade E, probability 0.0; an eligible
\* application below 0.60 without counteroffer is REJECTED.
C9_ApprovalBands ==
    pc = "predict_done" =>
        /\ Out.decision = "APPROVED" =>
              /\ V2PassesHardStops(data)
              /\ ~HasCounteroffer(Out)
              /\ V2ApprovalProb(data) >= 750000
              /\ V2Dti(data) <= 450000
              /\ V2Pti(data) <= 180000
        /\ ~V2PassesHardStops(data) =>
              /\ Out.decision = "REJECTED"
              /\ Out.risk_grade = "E"
              /\ Out.approval_probability = 0
        /\ (/\ V2PassesHardStops(data)
            /\ V2ApprovalProb(data) < 600000
            /\ ~HasCounteroffer(Out))
              => Out.decision = "REJECTED"

\* an approval
C9_Witness ==
    /\ pc = "predict_done"
    /\ Out.decision = "APPROVED"
    /\ Out.approval_probability >= 750000

\* C10 (as claimed): an application satisfying the manual-review rule and
\* failing no eligibility check is REFER, whatever its DTI.
C10_ReferBypassesDti ==
    (/\ pc = "underwrite_done"
     /\ ManualReviewRule(data)
     /\ V1EligibilityPasses(data))
    => Out.decision = "REFER"

\* C10 (amended): such an application is REFER when its DTI is at most 0.45
\* and REJECTED, with the DTI reason alone, when its DTI exceeds 0.45.
C10_DtiRejectsBeforeRefer ==
    (/\ pc = "underwrite_done"
     /\ ManualReviewRule(data)
     /\ V1EligibilityPasses(data))
    => IF V1Dti(data, Out.model_version) > 450000
       THEN /\ Out.decision = "REJECTED"
            /\ Len(Out.reasons) = 1
            /\ HasPrefix(Out.reasons[1], "DTI too high (")
       ELSE Out.decision = "REFER"

\* the manual-review rule holds, eligibility passes, DTI is above 0.45, and
\* the application is rejected
C10_Witness ==
    /\ pc = "underwrite_done"
    /\ ManualReviewRule(data)
    /\ V1EligibilityPasses(data)
    /\ V1Dti(data, Out.model_version) > 450000
    /\ Out.decision = "REJECTED"

====
